---------------------------- MODULE Spec2Model ----------------------------
(***************************************************************************)
(* A model of the lexer (src/src/lexer.rs), the token model                *)
(* (src/src/tokens.rs), the AST (src/src/ast.rs) and the parser            *)
(* (src/src/parser.rs) of interpreter-rs.                                  *)
(*                                                                         *)
(* Bytes are u8 values, written as their numbers (b'=' is 61).  Text is a  *)
(* sequence of bytes.  Rust's 0-based index i is the 1-based i + 1 here.   *)
(* Option<T> is a sequence of length at most one: None is << >>, Some(v)   *)
(* is <<v>>.                                                               *)
(***************************************************************************)
EXTENDS Integers, Sequences, FiniteSets, TLC

VARIABLES
    input,      \* the source text handed to Lexer::new
    src,        \* how input was put together (statement descriptors); history only
    lexer,      \* the Lexer a token-dump client steps (repl.rs)
    emitted,    \* history of that client's next_token calls
    parser,     \* the Parser (it owns its own Lexer)
    program,    \* Program.statements under construction in parse_program
    pc,         \* where the client is
    call        \* the last call a client made on the parser or the lexer
                \* directly: what, with what, on which state, returning what

vars == <<input, src, lexer, emitted, parser, program, pc, call>>

None == << >>
Some(v) == <<v>>

(***************************************************************************)
(* Token model                                                             *)
(***************************************************************************)
TokenType ==
    {"Illegal", "Eof", "Ident", "Int", "Assign", "Plus", "Comma", "Semicolon",
     "LParen", "RParen", "LBrace", "RBrace", "Function", "Let", "Equal",
     "Return", "True", "False", "Minus", "Bang", "BangEqual", "Asterisk",
     "Slash", "LessThan", "GreaterThan", "If", "Else", "String"}

\* Token::new
Token_new(token_type, literal) == [token_type |-> token_type, literal |-> literal]

\* The source text of the tokens that carry no scanned text.
Lexeme(token_type) ==
    CASE token_type = "Assign"      -> <<61>>
      [] token_type = "Plus"        -> <<43>>
      [] token_type = "Comma"       -> <<44>>
      [] token_type = "Semicolon"   -> <<59>>
      [] token_type = "LParen"      -> <<40>>
      [] token_type = "RParen"      -> <<41>>
      [] token_type = "LBrace"      -> <<123>>
      [] token_type = "RBrace"      -> <<125>>
      [] token_type = "Function"    -> <<102, 110>>
      [] token_type = "Let"         -> <<108, 101, 116>>
      [] token_type = "Equal"       -> <<61, 61>>
      [] token_type = "Return"      -> <<114, 101, 116, 117, 114, 110>>
      [] token_type = "True"        -> <<116, 114, 117, 101>>
      [] token_type = "False"       -> <<102, 97, 108, 115, 101>>
      [] token_type = "Minus"       -> <<45>>
      [] token_type = "Bang"        -> <<33>>
      [] token_type = "BangEqual"   -> <<33, 61>>
      [] token_type = "Asterisk"    -> <<42>>
      [] token_type = "Slash"       -> <<47>>
      [] token_type = "LessThan"    -> <<60>>
      [] token_type = "GreaterThan" -> <<62>>
      [] token_type = "If"          -> <<105, 102>>
      [] token_type = "Else"        -> <<101, 108, 115, 101>>
      [] OTHER                      -> << >>

\* The Token value (tokens.rs) of what the lexer's match arm names: the arm's
\* payload for Ident and Int, the token's source text for the others, empty
\* for Eof and Illegal.
LexToken(token_type, payload) ==
    Token_new(token_type,
              IF token_type \in {"Ident", "Int"} THEN payload ELSE Lexeme(token_type))

(***************************************************************************)
(* Lexer                                                                   *)
(***************************************************************************)
\* alphabetic with the bytes from 0x80 on taken for letters too
is_alphabetic_Wide(ch) == ch \in 65..90 \/ ch \in 97..122 \/ ch >= 128

\* u8::is_ascii_alphabetic
is_ascii_alphabetic(ch) == ch \in 65..90 \/ ch \in 97..122

\* u8::is_ascii_digit
is_ascii_digit(ch) == ch \in 48..57

\* u8::is_ascii_whitespace: space, \t, \n, form feed, \r
is_ascii_whitespace(ch) == ch \in {32, 9, 10, 12, 13}

\* the arm b'a'..=b'z' | b'A'..=b'Z' | b'_'
is_letter(ch) == ch \in 97..122 \/ ch \in 65..90 \/ ch = 95

\* read_char that steps read_position before it copies it to position
read_char_StepFirst(l) ==
    [l EXCEPT !.ch = IF l.read_position >= Len(l.input)
                     THEN 0
                     ELSE l.input[l.read_position + 1],
              !.position = l.read_position + 1,
              !.read_position = l.read_position + 1]

\* Lexer::read_char
read_char(l) ==
    [l EXCEPT !.ch = IF l.read_position >= Len(l.input)
                     THEN 0
                     ELSE l.input[l.read_position + 1],
              !.position = l.read_position,
              !.read_position = l.read_position + 1]

\* Lexer::peek_char
peek_char(l) ==
    IF l.read_position >= Len(l.input) THEN 0 ELSE l.input[l.read_position + 1]

\* Lexer::skip_whitespace
RECURSIVE skip_whitespace(_)
skip_whitespace(l) ==
    IF is_ascii_whitespace(l.ch) THEN skip_whitespace(read_char(l)) ELSE l

\* the while loop of Lexer::read_identifier
RECURSIVE read_identifier_loop(_)
read_identifier_loop(l) ==
    IF is_ascii_alphabetic(l.ch) \/ l.ch = 95
    THEN read_identifier_loop(read_char(l))
    ELSE l

\* input[from..to] of Rust: bytes from (inclusive) to to (exclusive), 0-based
Slice(s, from, to) == SubSeq(s, from + 1, to)

\* read_identifier that returns the text and leaves the lexer where it was
read_identifier_NoAdvance(l) ==
    LET l2 == read_identifier_loop(l)
    IN  [lexer |-> l, text |-> Slice(l.input, l.position, l2.position)]

\* Lexer::read_identifier: the lexer afterwards and the text returned
read_identifier(l) ==
    LET l2 == read_identifier_loop(l)
    IN  [lexer |-> l2, text |-> Slice(l.input, l.position, l2.position)]

\* the while loop of Lexer::read_int
RECURSIVE read_int_loop(_)
read_int_loop(l) ==
    IF is_ascii_digit(l.ch) THEN read_int_loop(read_char(l)) ELSE l

\* read_int that takes the first digit only
read_int_OneDigit(l) ==
    LET l2 == read_char(l)
    IN  [lexer |-> l2, text |-> Slice(l.input, l.position, l2.position)]

\* Lexer::read_int
read_int(l) ==
    LET l2 == read_int_loop(l)
    IN  [lexer |-> l2, text |-> Slice(l.input, l.position, l2.position)]

\* Keyword matching the start of the text instead of the whole text
Keyword_Prefix(ident) ==
    LET starts(kw) == Len(ident) >= Len(kw) /\ SubSeq(ident, 1, Len(kw)) = kw
    IN  CASE starts(<<102, 110>>)                     -> "Function"
          [] starts(<<108, 101, 116>>)                -> "Let"
          [] starts(<<114, 101, 116, 117, 114, 110>>) -> "Return"
          [] starts(<<116, 114, 117, 101>>)           -> "True"
          [] starts(<<102, 97, 108, 115, 101>>)       -> "False"
          [] starts(<<105, 102>>)                     -> "If"
          [] starts(<<101, 108, 115, 101>>)           -> "Else"
          [] OTHER                                    -> "Ident"

\* the keyword match of Lexer::next_token
Keyword(ident) ==
    CASE ident = <<102, 110>>                     -> "Function"
      [] ident = <<108, 101, 116>>                -> "Let"
      [] ident = <<114, 101, 116, 117, 114, 110>> -> "Return"
      [] ident = <<116, 114, 117, 101>>           -> "True"
      [] ident = <<102, 97, 108, 115, 101>>       -> "False"
      [] ident = <<105, 102>>                     -> "If"
      [] ident = <<101, 108, 115, 101>>           -> "Else"
      [] OTHER                                    -> "Ident"

\* the one-byte arms with the last arm giving Eof
SingleByte_OtherEof(ch) ==
    CASE ch = 59  -> "Semicolon"
      [] ch = 40  -> "LParen"
      [] ch = 41  -> "RParen"
      [] ch = 44  -> "Comma"
      [] ch = 43  -> "Plus"
      [] ch = 123 -> "LBrace"
      [] ch = 125 -> "RBrace"
      [] ch = 45  -> "Minus"
      [] ch = 42  -> "Asterisk"
      [] ch = 47  -> "Slash"
      [] ch = 60  -> "LessThan"
      [] ch = 62  -> "GreaterThan"
      [] OTHER    -> "Eof"

\* the one-byte arms of Lexer::next_token
SingleByte(ch) ==
    CASE ch = 59  -> "Semicolon"
      [] ch = 40  -> "LParen"
      [] ch = 41  -> "RParen"
      [] ch = 44  -> "Comma"
      [] ch = 43  -> "Plus"
      [] ch = 123 -> "LBrace"
      [] ch = 125 -> "RBrace"
      [] ch = 45  -> "Minus"
      [] ch = 42  -> "Asterisk"
      [] ch = 47  -> "Slash"
      [] ch = 60  -> "LessThan"
      [] ch = 62  -> "GreaterThan"
      [] ch = 0   -> "Eof"
      [] OTHER    -> "Illegal"

\* TwoByte without the look at the next byte
TwoByte_NoLookahead(l, one, two) == [lexer |-> l, token_type |-> one]

\* the arms b'=' and b'!' of Lexer::next_token: the lexer before the final
\* read_char and the token
TwoByte(l, one, two) ==
    IF peek_char(l) = 61
    THEN [lexer |-> read_char(l), token_type |-> two]
    ELSE [lexer |-> l, token_type |-> one]

\* Lexer::next_token: the lexer afterwards and the token returned
Lexer_next_token(l0) ==
    LET l == skip_whitespace(l0)
    IN  IF is_letter(l.ch)
        THEN LET r == read_identifier(l)
             IN  [lexer |-> r.lexer, token |-> LexToken(Keyword(r.text), r.text)]
        ELSE IF l.ch \in 48..57
        THEN LET r == read_int(l)
             IN  [lexer |-> r.lexer, token |-> LexToken("Int", r.text)]
        ELSE IF l.ch = 61
        THEN LET r == TwoByte(l, "Assign", "Equal")
             IN  [lexer |-> read_char(r.lexer), token |-> LexToken(r.token_type, << >>)]
        ELSE IF l.ch = 33
        THEN LET r == TwoByte(l, "Bang", "BangEqual")
             IN  [lexer |-> read_char(r.lexer), token |-> LexToken(r.token_type, << >>)]
        ELSE [lexer |-> read_char(l), token |-> LexToken(SingleByte(l.ch), << >>)]

\* Lexer::new that loads the first byte before its call to next_token
Lexer_new_ReadFirst(text) ==
    Lexer_next_token(read_char([position |-> 0, read_position |-> 0, ch |-> 0,
                                input |-> text])).lexer

\* Lexer::new
Lexer_new(text) ==
    Lexer_next_token([position |-> 0, read_position |-> 0, ch |-> 0,
                      input |-> text]).lexer

(***************************************************************************)
(* AST (ast.rs)                                                            *)
(***************************************************************************)
\* Identifier::string, IntegerLiteral::string, PrefixExpression::string
\* behind Expression::string
RECURSIVE Expression_string(_)
Expression_string(e) ==
    CASE e.node = "Identifier"       -> e.value
      [] e.node = "IntegerLiteral"   -> e.token.literal
      [] e.node = "PrefixExpression" ->
            <<40>> \o e.operator \o Expression_string(e.right) \o <<41>>

\* Identifier::token_literal, IntegerLiteral::token_literal,
\* PrefixExpression::token_literal behind Expression::token_literal
Expression_token_literal(e) == e.token.literal

\* LetStatement::token_literal, ReturnStatement::token_literal,
\* ExpressionStatement::token_literal behind Statement::token_literal
Statement_token_literal(s) == s.token.literal

\* Identifier::string
Identifier_string(i) == i.value

\* Statement::string with nothing but the = before the ; of a LetStatement
\* without value
Statement_string_BareAssign(s) ==
    CASE s.node = "Let" ->
            Statement_token_literal(s) \o <<32>> \o Identifier_string(s.name)
                \o (IF s.value # None
                    THEN <<32, 61, 32>> \o Expression_string(s.value[1])
                    ELSE <<32, 61>>)
                \o <<59>>
      [] s.node = "Return" ->
            Statement_token_literal(s) \o <<32>>
                \o (IF s.return_value # None
                    THEN Expression_string(s.return_value[1])
                    ELSE << >>)
                \o <<59>>
      [] s.node = "Expression" ->
            IF s.expression # None THEN Expression_string(s.expression[1]) ELSE << >>

\* LetStatement::string, ReturnStatement::string, ExpressionStatement::string
\* behind Statement::string
Statement_string(s) ==
    CASE s.node = "Let" ->
            Statement_token_literal(s) \o <<32>> \o Identifier_string(s.name)
                \o <<32, 61, 32>>
                \o (IF s.value # None THEN Expression_string(s.value[1]) ELSE << >>)
                \o <<59>>
      [] s.node = "Return" ->
            Statement_token_literal(s) \o <<32>>
                \o (IF s.return_value # None
                    THEN Expression_string(s.return_value[1])
                    ELSE << >>)
                \o <<59>>
      [] s.node = "Expression" ->
            IF s.expression # None THEN Expression_string(s.expression[1]) ELSE << >>

\* Program::string
RECURSIVE Program_string(_)
Program_string(statements) ==
    IF statements = << >> THEN << >>
    ELSE Statement_string(Head(statements)) \o Program_string(Tail(statements))

(***************************************************************************)
(* str::parse::<i64> on the literal of an Int token.  An i64 value is      *)
(* written as its decimal digits without leading zeros (<<0>> for zero),   *)
(* most significant first, since 2^63 - 1 is beyond TLC's integers.        *)
(***************************************************************************)
I64_MAX == <<9, 2, 2, 3, 3, 7, 2, 0, 3, 6, 8, 5, 4, 7, 7, 5, 8, 0, 7>>

RECURSIVE StripZeros(_)
StripZeros(ds) ==
    IF Len(ds) > 1 /\ Head(ds) = 0 THEN StripZeros(Tail(ds)) ELSE ds

\* ds > es for digit sequences of the same length
RECURSIVE DigitsGreater(_, _)
DigitsGreater(ds, es) ==
    IF ds = << >> THEN FALSE
    ELSE IF Head(ds) # Head(es) THEN Head(ds) > Head(es)
    ELSE DigitsGreater(Tail(ds), Tail(es))

\* Ok(n) or Err(_): empty text, a byte that is no digit, or a value above
\* i64::MAX is an error.  (A sign is accepted by parse but never part of an
\* Int token's literal: read_int scans digits only.)
parse_i64(text) ==
    IF text = << >> \/ \E i \in 1..Len(text) : ~is_ascii_digit(text[i])
    THEN [ok |-> FALSE, value |-> << >>]
    ELSE LET ds == StripZeros([i \in 1..Len(text) |-> text[i] - 48])
         IN  IF Len(ds) > Len(I64_MAX)
                \/ (Len(ds) = Len(I64_MAX) /\ DigitsGreater(ds, I64_MAX))
             THEN [ok |-> FALSE, value |-> << >>]
             ELSE [ok |-> TRUE, value |-> ds]

(***************************************************************************)
(* Parser (parser.rs).  A handler is an operator from the parser to the    *)
(* parser afterwards and what the handler returns.  pulled counts the      *)
(* tokens the parser has taken from its lexer (history only).              *)
(***************************************************************************)
LOWEST == 1

\* Parser::next_token that pulls the new token into cur_token as well
Parser_next_token_NoShift(p) ==
    LET r == Lexer_next_token(p.lexer)
    IN  [p EXCEPT !.cur_token = r.token,
                  !.peek_token = r.token,
                  !.lexer = r.lexer,
                  !.pulled = @ + 1]

\* Parser::next_token
Parser_next_token(p) ==
    LET r == Lexer_next_token(p.lexer)
    IN  [p EXCEPT !.cur_token = p.peek_token,
                  !.peek_token = r.token,
                  !.lexer = r.lexer,
                  !.pulled = @ + 1]

\* Parser::register_prefix
register_prefix(p, token_type, func) ==
    [p EXCEPT !.prefix_parse_fns = (token_type :> func) @@ @]

\* Parser::new
Parser_new(l) ==
    LET p0 == [lexer |-> l,
               cur_token |-> Token_new("Illegal", << >>),
               peek_token |-> Token_new("Illegal", << >>),
               errors |-> << >>,
               prefix_parse_fns |-> << >>,
               infix_parse_fns |-> << >>,
               pulled |-> 0]
        p2 == Parser_next_token(Parser_next_token(p0))
    IN  register_prefix(register_prefix(p2, "Ident", "parse_identifier"),
                        "Int", "parse_integer_literal")

\* Parser::parse_identifier
parse_identifier(p) ==
    [parser |-> p,
     result |-> Some([node |-> "Identifier",
                      token |-> p.cur_token,
                      value |-> p.cur_token.literal])]

\* parse_integer_literal that records nothing when the conversion fails
parse_integer_literal_Silent(p) ==
    LET is_int_literal == parse_i64(p.cur_token.literal)
    IN  IF is_int_literal.ok
        THEN [parser |-> p,
              result |-> Some([node |-> "IntegerLiteral",
                               token |-> p.cur_token,
                               value |-> is_int_literal.value])]
        ELSE [parser |-> p, result |-> None]

\* Parser::parse_integer_literal
parse_integer_literal(p) ==
    LET is_int_literal == parse_i64(p.cur_token.literal)
    IN  IF is_int_literal.ok
        THEN [parser |-> p,
              result |-> Some([node |-> "IntegerLiteral",
                               token |-> p.cur_token,
                               value |-> is_int_literal.value])]
        ELSE [parser |-> [p EXCEPT !.errors =
                             Append(@, [msg |-> "could not parse as integer",
                                        literal |-> p.cur_token.literal])],
              result |-> None]

\* Parser::no_prefix_parse_fn_error
no_prefix_parse_fn_error(p, t) ==
    [p EXCEPT !.errors =
         Append(@, [msg |-> "no prefix parse function found", token_type |-> t])]

\* the call prefix(self) through the function pointer of the table
CallPrefix(func, p) ==
    CASE func = "parse_identifier"      -> parse_identifier(p)
      [] func = "parse_integer_literal" -> parse_integer_literal(p)

\* Parser::parse_expression
parse_expression(p, precedence) ==
    IF p.cur_token.token_type \notin DOMAIN p.prefix_parse_fns
    THEN [parser |-> p, result |-> None]
    ELSE LET r == CallPrefix(p.prefix_parse_fns[p.cur_token.token_type], p)
         IN  IF r.result # None
             THEN [parser |-> no_prefix_parse_fn_error(r.parser,
                                                      r.parser.cur_token.token_type),
                   result |-> None]
             ELSE [parser |-> r.parser, result |-> r.result]

\* Parser::cur_token_is
cur_token_is(p, token_type) == p.cur_token.token_type = token_type

\* Parser::peek_token_is
peek_token_is(p, token_type) == p.peek_token.token_type = token_type

\* peek_error that assigns the error list instead of pushing
peek_error_Assign(p, token_type) ==
    [p EXCEPT !.errors =
         <<[msg |-> "expected next token to be, got instead",
            expected |-> token_type,
            got |-> p.cur_token.token_type]>>]

\* Parser::peek_error
peek_error(p, token_type) ==
    [p EXCEPT !.errors =
         Append(@, [msg |-> "expected next token to be, got instead",
                    expected |-> token_type,
                    got |-> p.cur_token.token_type])]

\* expect_peek that advances on a mismatch too
expect_peek_AdvanceOnFail(p, token_type) ==
    IF peek_token_is(p, token_type)
    THEN [parser |-> Parser_next_token(p), result |-> TRUE]
    ELSE [parser |-> Parser_next_token(peek_error(p, token_type)), result |-> FALSE]

\* Parser::expect_peek: the parser afterwards and the bool returned
expect_peek(p, token_type) ==
    IF peek_token_is(p, token_type)
    THEN [parser |-> Parser_next_token(p), result |-> TRUE]
    ELSE [parser |-> peek_error(p, token_type), result |-> FALSE]

\* skip_to_semicolon without the stop at Semicolon
RECURSIVE skip_to_semicolon_ToEof(_)
skip_to_semicolon_ToEof(p) ==
    IF ~cur_token_is(p, "Eof")
    THEN skip_to_semicolon_ToEof(Parser_next_token(p))
    ELSE p

\* skip_to_semicolon that takes the semicolon as well
RECURSIVE skip_to_semicolon_PastSemicolon(_)
skip_to_semicolon_PastSemicolon(p) ==
    IF cur_token_is(p, "Eof") THEN p
    ELSE IF cur_token_is(p, "Semicolon") THEN Parser_next_token(p)
    ELSE skip_to_semicolon_PastSemicolon(Parser_next_token(p))

\* the loop `while !cur_token_is(Semicolon) && !cur_token_is(Eof)` of
\* parse_let_statement and parse_return_statement
RECURSIVE skip_to_semicolon(_)
skip_to_semicolon(p) ==
    IF ~cur_token_is(p, "Semicolon") /\ ~cur_token_is(p, "Eof")
    THEN skip_to_semicolon(Parser_next_token(p))
    ELSE p

\* parse_expression_statement that leaves the semicolon where it is
parse_expression_statement_NeverAdvance(p) ==
    LET r == parse_expression(p, LOWEST)
        stmt == [node |-> "Expression",
                 token |-> r.parser.cur_token,
                 expression |-> r.result]
    IN  [parser |-> r.parser, result |-> Some(stmt)]

\* parse_expression_statement that gives no node when there is no expression
parse_expression_statement_NoneOnAbsent(p) ==
    LET r == parse_expression(p, LOWEST)
        stmt == [node |-> "Expression",
                 token |-> r.parser.cur_token,
                 expression |-> r.result]
    IN  [parser |-> IF peek_token_is(r.parser, "Semicolon")
                    THEN Parser_next_token(r.parser)
                    ELSE r.parser,
         result |-> IF r.result = None THEN None ELSE Some(stmt)]

\* Parser::parse_expression_statement
parse_expression_statement(p) ==
    LET r == parse_expression(p, LOWEST)
        stmt == [node |-> "Expression",
                 token |-> r.parser.cur_token,
                 expression |-> r.result]
    IN  [parser |-> IF peek_token_is(r.parser, "Semicolon")
                    THEN Parser_next_token(r.parser)
                    ELSE r.parser,
         result |-> Some(stmt)]

\* parse_let_statement that returns the statement built so far when a peek
\* check fails
parse_let_statement_NodeOnFail(p) ==
    LET name == [node |-> "Identifier",
                 token |-> p.peek_token,
                 value |-> p.peek_token.literal]
        stmt == [node |-> "Let", token |-> p.cur_token, name |-> name,
                 value |-> None]
        e1 == expect_peek(p, "Ident")
        e2 == expect_peek(e1.parser, "Assign")
    IN  IF ~e1.result THEN [parser |-> e1.parser, result |-> Some(stmt)]
        ELSE IF ~e2.result THEN [parser |-> e2.parser, result |-> Some(stmt)]
        ELSE [parser |-> skip_to_semicolon(e2.parser), result |-> Some(stmt)]

\* parse_let_statement with the name taken from cur_token
parse_let_statement_NameFromCur(p) ==
    LET name == [node |-> "Identifier",
                 token |-> p.cur_token,
                 value |-> p.cur_token.literal]
        stmt == [node |-> "Let", token |-> p.cur_token, name |-> name,
                 value |-> None]
        e1 == expect_peek(p, "Ident")
        e2 == expect_peek(e1.parser, "Assign")
    IN  IF ~e1.result THEN [parser |-> e1.parser, result |-> None]
        ELSE IF ~e2.result THEN [parser |-> e2.parser, result |-> None]
        ELSE [parser |-> skip_to_semicolon(e2.parser), result |-> Some(stmt)]

\* Parser::parse_let_statement
parse_let_statement(p) ==
    LET name == [node |-> "Identifier",
                 token |-> p.peek_token,
                 value |-> p.peek_token.literal]
        stmt == [node |-> "Let", token |-> p.cur_token, name |-> name,
                 value |-> None]
        e1 == expect_peek(p, "Ident")
        e2 == expect_peek(e1.parser, "Assign")
    IN  IF ~e1.result THEN [parser |-> e1.parser, result |-> None]
        ELSE IF ~e2.result THEN [parser |-> e2.parser, result |-> None]
        ELSE [parser |-> skip_to_semicolon(e2.parser), result |-> Some(stmt)]

\* Parser::parse_return_statement
parse_return_statement(p) ==
    LET stmt == [node |-> "Return",
                 token |-> p.cur_token,
                 return_value |-> Some([node |-> "Identifier",
                                        token |-> p.peek_token,
                                        value |-> p.peek_token.literal])]
    IN  [parser |-> skip_to_semicolon(Parser_next_token(p)),
         result |-> Some(stmt)]

\* Parser::parse_statement
parse_statement(p) ==
    CASE p.cur_token.token_type = "Let"    -> parse_let_statement(p)
      [] p.cur_token.token_type = "Return" -> parse_return_statement(p)
      [] OTHER                             -> parse_expression_statement(p)

\* the while loop of Parser::parse_program
RECURSIVE parse_program_loop(_, _)
parse_program_loop(p, statements) ==
    IF p.cur_token.token_type = "Eof"
    THEN [parser |-> p, program |-> statements]
    ELSE LET stmt == parse_statement(p)
         IN  parse_program_loop(Parser_next_token(stmt.parser),
                                IF stmt.result # None
                                THEN Append(statements, stmt.result[1])
                                ELSE statements)

\* Parser::parse_program: the parser afterwards and Program.statements
parse_program(p) == parse_program_loop(p, << >>)

(***************************************************************************)
(* Source texts.  A program text is at most MaxStmts statements, one per   *)
(* line; src keeps how each was put together.                              *)
(***************************************************************************)
MaxStmts == 2

\* y, 5, 007, !5, -15: op is the prefix operator (empty if none), text the
\* operand, num the operand's number
ExprDescs ==
    {[form |-> "ident",  op |-> << >>,  text |-> <<121>>,        num |-> 0],
     [form |-> "int",    op |-> << >>,  text |-> <<53>>,         num |-> 5],
     [form |-> "int",    op |-> << >>,  text |-> <<48, 48, 55>>, num |-> 7],
     [form |-> "prefix", op |-> <<33>>, text |-> <<53>>,         num |-> 5],
     [form |-> "prefix", op |-> <<45>>, text |-> <<49, 53>>,     num |-> 15]}

\* x, foobar
NameTexts == {<<120>>, <<102, 111, 111, 98, 97, 114>>}

ExprText(e) == e.op \o e.text

\* 9223372036854775807 = 2^63 - 1, the largest i64
MaxIntDesc ==
    [form |-> "maxint", op |-> << >>,
     text |-> <<57, 50, 50, 51, 51, 55, 50, 48, 51, 54, 56, 53, 52, 55, 55, 53, 56, 48, 55>>,
     num |-> 0]

\* 9223372036854775808 = 2^63, one more than an i64 holds
BigIntDesc ==
    [form |-> "bigint", op |-> << >>,
     text |-> <<57, 50, 50, 51, 51, 55, 50, 48, 51, 54, 56, 53, 52, 55, 55, 53, 56, 48, 56>>,
     num |-> 0]

\* let NAME = EXPR;   return EXPR;   EXPR   EXPR;
\* let = EXPR; (no identifier)   let NAME EXPR; (no =)
\* 9223372036854775807;   9223372036854775808   9223372036854775808;
StmtDescs ==
    {[kind |-> k, name |-> n, expr |-> e, semi |-> TRUE] :
        k \in {"let", "let_no_assign"}, n \in NameTexts, e \in ExprDescs}
    \cup {[kind |-> k, name |-> << >>, expr |-> e, semi |-> TRUE] :
        k \in {"return", "let_no_ident"}, e \in ExprDescs}
    \cup {[kind |-> "expr", name |-> << >>, expr |-> e, semi |-> s] :
        e \in ExprDescs, s \in BOOLEAN}
    \cup {[kind |-> "expr", name |-> << >>, expr |-> MaxIntDesc, semi |-> TRUE]}
    \cup {[kind |-> "expr", name |-> << >>, expr |-> BigIntDesc, semi |-> s] :
        s \in BOOLEAN}

StmtText(s) ==
    CASE s.kind = "let" ->
            <<108, 101, 116, 32>> \o s.name \o <<32, 61, 32>> \o ExprText(s.expr) \o <<59>>
      [] s.kind = "let_no_assign" ->
            <<108, 101, 116, 32>> \o s.name \o <<32>> \o ExprText(s.expr) \o <<59>>
      [] s.kind = "let_no_ident" ->
            <<108, 101, 116, 32, 61, 32>> \o ExprText(s.expr) \o <<59>>
      [] s.kind = "let_no_semi" ->
            <<108, 101, 116, 32>> \o s.name \o <<32, 61, 32>> \o ExprText(s.expr)
      [] s.kind = "return" ->
            <<114, 101, 116, 117, 114, 110, 32>> \o ExprText(s.expr) \o <<59>>
      [] s.kind = "expr" ->
            ExprText(s.expr) \o (IF s.semi THEN <<59>> ELSE << >>)

RECURSIVE ProgramText(_)
ProgramText(ss) ==
    IF ss = << >> THEN << >>
    ELSE IF Len(ss) = 1 THEN StmtText(ss[1])
    ELSE StmtText(ss[1]) \o <<10>> \o ProgramText(Tail(ss))

Programs == UNION {[1..n -> StmtDescs] : n \in 0..MaxStmts}

(***************************************************************************)
(* Parsing a program: Parser::new(Lexer::new(input)), then parse_program.  *)
(***************************************************************************)
Init ==
    /\ src \in Programs
    /\ input = ProgramText(src)
    /\ parser = Parser_new(Lexer_new(input))
    /\ program = << >>
    /\ pc = "parse_program"
    /\ lexer = Lexer_new(input)
    /\ emitted = << >>
    /\ call = None

\* ParseProgramLoop without the next_token that ends the iteration
ParseProgramLoop_NoAdvance ==
    /\ pc = "parse_program"
    /\ parser.cur_token.token_type # "Eof"
    /\ LET stmt == parse_statement(parser)
       IN  /\ program' = IF stmt.result # None
                         THEN Append(program, stmt.result[1])
                         ELSE program
           /\ parser' = stmt.parser
    /\ UNCHANGED <<input, src, lexer, emitted, pc, call>>

\* ParseProgramLoop that gives up at the first statement that yields no node
ParseProgramLoop_StopOnNone ==
    /\ pc = "parse_program"
    /\ parser.cur_token.token_type # "Eof"
    /\ LET stmt == parse_statement(parser)
       IN  /\ program' = IF stmt.result # None
                         THEN Append(program, stmt.result[1])
                         ELSE program
           /\ parser' = Parser_next_token(stmt.parser)
           /\ pc' = IF stmt.result = None THEN "done" ELSE pc
    /\ UNCHANGED <<input, src, lexer, emitted, call>>

\* one iteration of the while loop of Parser::parse_program
ParseProgramLoop ==
    /\ pc = "parse_program"
    /\ parser.cur_token.token_type # "Eof"
    /\ LET stmt == parse_statement(parser)
       IN  /\ program' = IF stmt.result # None
                         THEN Append(program, stmt.result[1])
                         ELSE program
           /\ parser' = Parser_next_token(stmt.parser)
    /\ UNCHANGED <<input, src, lexer, emitted, pc, call>>

\* the loop's exit: parse_program returns program
ParseProgramReturn ==
    /\ pc = "parse_program"
    /\ parser.cur_token.token_type = "Eof"
    /\ pc' = "done"
    /\ UNCHANGED <<input, src, lexer, emitted, parser, program, call>>

Next == ParseProgramLoop \/ ParseProgramReturn

Spec == Init /\ [][Next]_vars

(***************************************************************************)
(* Dumping the tokens of a text: Lexer::new(input), then next_token again  *)
(* and again, as the read loop of repl.rs does (and a client that goes on  *)
(* after Eof).  The text is at most MaxFrags pieces of LexFrags.           *)
(***************************************************************************)
MaxFrags == 3

\* calls that return Eof, after which the client stops calling
MaxEofCalls == 2

\* =  !  space  ;  x  _  5  0  let  letter  if  iffy  fn  return  true  false
\* else  NUL  @  0xC3
LexFrags ==
    {<<61>>, <<33>>, <<32>>, <<59>>, <<120>>, <<95>>, <<53>>, <<48>>,
     <<108, 101, 116>>, <<108, 101, 116, 116, 101, 114>>,
     <<105, 102>>, <<105, 102, 102, 121>>, <<102, 110>>,
     <<114, 101, 116, 117, 114, 110>>, <<116, 114, 117, 101>>,
     <<102, 97, 108, 115, 101>>, <<101, 108, 115, 101>>,
     <<0>>, <<64>>, <<195>>}

RECURSIVE Concat(_)
Concat(ss) == IF ss = << >> THEN << >> ELSE Head(ss) \o Concat(Tail(ss))

LexInputs == {Concat(fs) : fs \in UNION {[1..n -> LexFrags] : n \in 0..MaxFrags}}

EofCalls == Cardinality({k \in 1..Len(emitted) : emitted[k].token.token_type = "Eof"})

InitLexer ==
    /\ input \in LexInputs
    /\ src = << >>
    /\ lexer = Lexer_new(input)
    /\ emitted = << >>
    /\ parser = Parser_new(Lexer_new(input))
    /\ program = << >>
    /\ pc = "token_dump"
    /\ call = None

\* one call lexer.next_token() of the client; emitted keeps the token and
\* the lexer's position before and after the call
TokenDump ==
    /\ pc = "token_dump"
    /\ EofCalls < MaxEofCalls
    /\ LET r == Lexer_next_token(lexer)
       IN  /\ lexer' = r.lexer
           /\ emitted' = Append(emitted, [token |-> r.token,
                                          from |-> lexer.position,
                                          to |-> r.lexer.position])
    /\ UNCHANGED <<input, src, parser, program, pc, call>>

NextLexer == TokenDump

SpecLexer == InitLexer /\ [][NextLexer]_vars

(***************************************************************************)
(* Properties of parse_program (checked under Spec)                        *)
(***************************************************************************)
Done == pc = "done"

AllOfKind(kind) == \A i \in 1..Len(src) : src[i].kind = kind

\* the number a sequence of decimal digits stands for
RECURSIVE NumberOf(_)
NumberOf(ds) ==
    IF ds = << >> THEN 0 ELSE 10 * NumberOf(SubSeq(ds, 1, Len(ds) - 1)) + ds[Len(ds)]

\* C1: a text of n well-formed `let IDENT = EXPR;` statements parses to exactly
\* n statements, the i-th a LetStatement with token_literal() "let" and
\* name.value the i-th IDENT, and leaves the error list empty.
C1_LetStatements ==
    (Done /\ AllOfKind("let")) =>
        /\ Len(program) = Len(src)
        /\ \A i \in 1..Len(program) :
              /\ program[i].node = "Let"
              /\ Statement_token_literal(program[i]) = <<108, 101, 116>>
              /\ program[i].name.value = src[i].name
        /\ parser.errors = << >>

\* two let statements with different names have been parsed
C1_Witness ==
    /\ Done /\ AllOfKind("let") /\ Len(src) = 2
    /\ src[1].name # src[2].name
    /\ Len(program) = 2

\* C2: a text of n well-formed `return EXPR;` statements parses to exactly n
\* statements, each a ReturnStatement with token_literal() "return", and
\* leaves the error list empty.
C2_ReturnStatements ==
    (Done /\ AllOfKind("return")) =>
        /\ Len(program) = Len(src)
        /\ \A i \in 1..Len(program) :
              /\ program[i].node = "Return"
              /\ Statement_token_literal(program[i]) = <<114, 101, 116, 117, 114, 110>>
        /\ parser.errors = << >>

\* two return statements have been parsed
C2_Witness ==
    /\ Done /\ AllOfKind("return") /\ Len(src) = 2
    /\ src[1].expr # src[2].expr
    /\ Len(program) = 2

\* the text is the one expression statement of the given form
OneExpr(form) ==
    /\ Len(src) = 1
    /\ src[1].kind = "expr"
    /\ src[1].expr.form = form

\* C3: a text that is a single identifier parses to exactly one
\* ExpressionStatement whose expression is present and is an Identifier with
\* value and token_literal() the identifier's text, with no error.
C3_IdentifierExpression ==
    (Done /\ OneExpr("ident")) =>
        /\ Len(program) = 1
        /\ program[1].node = "Expression"
        /\ program[1].expression # None
        /\ program[1].expression[1].node = "Identifier"
        /\ program[1].expression[1].value = src[1].expr.text
        /\ Expression_token_literal(program[1].expression[1]) = src[1].expr.text
        /\ parser.errors = << >>

\* C4: a text `N;` with N a digit run in the i64 range parses to exactly one
\* ExpressionStatement whose expression is an IntegerLiteral with value the
\* number N and token_literal() the text N, with no error.
C4_IntegerLiteralExpression ==
    (Done /\ OneExpr("int") /\ src[1].semi) =>
        /\ Len(program) = 1
        /\ program[1].node = "Expression"
        /\ program[1].expression # None
        /\ program[1].expression[1].node = "IntegerLiteral"
        /\ NumberOf(program[1].expression[1].value) = src[1].expr.num
        /\ Expression_token_literal(program[1].expression[1]) = src[1].expr.text
        /\ parser.errors = << >>

\* C5: a text `<op>N;` with op one of ! and - parses to exactly one
\* ExpressionStatement whose expression is a PrefixExpression with operator op
\* and right operand the IntegerLiteral N, string() gives "(<op>N)", and there
\* is no error.
C5_PrefixOperators ==
    (Done /\ OneExpr("prefix") /\ src[1].semi) =>
        /\ Len(program) = 1
        /\ program[1].node = "Expression"
        /\ program[1].expression # None
        /\ program[1].expression[1].node = "PrefixExpression"
        /\ program[1].expression[1].operator = src[1].expr.op
        /\ program[1].expression[1].right.node = "IntegerLiteral"
        /\ NumberOf(program[1].expression[1].right.value) = src[1].expr.num
        /\ Expression_string(program[1].expression[1])
              = <<40>> \o src[1].expr.op \o src[1].expr.text \o <<41>>
        /\ parser.errors = << >>

Malformed == {"let_no_ident", "let_no_assign"}

\* C6: a text with exactly two malformed let statements (no identifier, or no
\* =) and otherwise well-formed statements leaves exactly two entries in the
\* error list.
C6_TwoErrors ==
    (Done /\ Cardinality({i \in 1..Len(src) : src[i].kind \in Malformed}) = 2) =>
        Len(parser.errors) = 2

\* C10: parse_program terminates: every iteration of its loop, a failed
\* statement included, takes at least one more token from the lexer (so
\* cur_token moves forward); the tokens taken never exceed the length of the
\* text plus three, so the iterations are finitely many; and the loop is left
\* with cur_token Eof.
C10_Terminates ==
    /\ [][pc' = "parse_program" => parser'.pulled > parser.pulled]_vars
    /\ [](parser.pulled <= Len(input) + 3)
    /\ [](Done => parser.cur_token.token_type = "Eof")

\* the loop has ended after an iteration whose let statement failed
C10_Witness ==
    /\ Done
    /\ Len(src) = 2
    /\ src[1].kind = "let_no_ident"
    /\ parser.pulled > 2

(***************************************************************************)
(* Properties of Lexer::next_token (checked under SpecLexer)               *)
(***************************************************************************)
\* input[i] of Rust, 0 past the end
ByteAt(i) == IF i < Len(input) THEN input[i + 1] ELSE 0

\* the first index at or after i that holds no whitespace
RECURSIVE TokenStart(_)
TokenStart(i) ==
    IF i < Len(input) /\ input[i + 1] \in {9, 10, 12, 13, 32}
    THEN TokenStart(i + 1)
    ELSE i

\* the end of the run of letters and underscores that starts at i
RECURSIVE RunEnd(_)
RunEnd(i) ==
    IF i < Len(input)
       /\ (input[i + 1] \in 65..90 \/ input[i + 1] \in 97..122 \/ input[i + 1] = 95)
    THEN RunEnd(i + 1)
    ELSE i

\* C7: a = followed at once by = is one Equal token and a ! followed at once
\* by = is one BangEqual token, both bytes consumed; a = or ! followed by
\* anything else, or by the end of the input, is Assign resp. Bang, one byte
\* consumed.
C7_TwoCharOperators ==
    \A k \in 1..Len(emitted) :
        LET e == emitted[k]
            q == TokenStart(e.from)
        IN  /\ (q < Len(input) /\ input[q + 1] = 61) =>
                  IF ByteAt(q + 1) = 61
                  THEN e.token.token_type = "Equal" /\ e.to = q + 2
                  ELSE e.token.token_type = "Assign" /\ e.to = q + 1
            /\ (q < Len(input) /\ input[q + 1] = 33) =>
                  IF ByteAt(q + 1) = 61
                  THEN e.token.token_type = "BangEqual" /\ e.to = q + 2
                  ELSE e.token.token_type = "Bang" /\ e.to = q + 1

\* a text with three = in a row has been lexed: Equal, then Assign
C7_Witness ==
    \E k \in 1..Len(emitted) - 1 :
        /\ emitted[k].token.token_type = "Equal"
        /\ emitted[k + 1].token.token_type = "Assign"
        /\ emitted[k + 1].from = emitted[k].to

KeywordTexts ==
    {<<<<102, 110>>, "Function">>,
     <<<<108, 101, 116>>, "Let">>,
     <<<<114, 101, 116, 117, 114, 110>>, "Return">>,
     <<<<116, 114, 117, 101>>, "True">>,
     <<<<102, 97, 108, 115, 101>>, "False">>,
     <<<<105, 102>>, "If">>,
     <<<<101, 108, 115, 101>>, "Else">>}

\* C8: a maximal run of letters and underscores is the keyword token exactly
\* when the whole run is fn, let, return, true, false, if or else, and is
\* otherwise an Ident whose literal is the whole run.
C8_Keywords ==
    \A k \in 1..Len(emitted) :
        LET e == emitted[k]
            q == TokenStart(e.from)
            run == SubSeq(input, q + 1, RunEnd(q))
        IN  RunEnd(q) > q =>
              /\ e.to = RunEnd(q)
              /\ \A kw \in KeywordTexts :
                    e.token.token_type = kw[2] <=> run = kw[1]
              /\ (\A kw \in KeywordTexts : run # kw[1]) =>
                    e.token = [token_type |-> "Ident", literal |-> run]

\* an Ident that begins with a keyword and goes on, after a keyword token
C8_Witness ==
    \E k \in 1..Len(emitted), j \in 1..Len(emitted) :
        /\ emitted[k].token.token_type = "Ident"
        /\ \E kw \in KeywordTexts :
              /\ Len(emitted[k].token.literal) > Len(kw[1])
              /\ SubSeq(emitted[k].token.literal, 1, Len(kw[1])) = kw[1]
        /\ emitted[j].token.token_type \in {kw[2] : kw \in KeywordTexts}

\* C9: once next_token has returned Eof, every later call returns Eof.
C9_EofForever ==
    \A j \in 1..Len(emitted), k \in 1..Len(emitted) :
        (j < k /\ emitted[j].token.token_type = "Eof") =>
            emitted[k].token.token_type = "Eof"

(***************************************************************************)
(* Recovery after a failed statement (checked under Spec)                  *)
(***************************************************************************)
IsLetOrReturn(s) == s.kind \in {"let", "return"}

\* the Let and Return nodes of Program.statements, in order
LetReturnNodes == SelectSeq(program, LAMBDA s : s.node \in {"Let", "Return"})

\* how many of the first j statements of the text are well-formed let or
\* return statements
Rank(j) == Cardinality({i \in 1..j : IsLetOrReturn(src[i])})

\* C11: a well-formed let or return statement that follows a let statement
\* aborted by a peek mismatch (no identifier after let, or no = after the
\* identifier) is in Program.statements as a Let resp. Return node.
C11_LaterStatementsParsed ==
    Done =>
        \A j \in 1..Len(src) :
            (IsLetOrReturn(src[j]) /\ \E i \in 1..(j - 1) : src[i].kind \in Malformed) =>
                /\ Rank(j) <= Len(LetReturnNodes)
                /\ LET node == LetReturnNodes[Rank(j)]
                   IN  IF src[j].kind = "let"
                       THEN node.node = "Let" /\ node.name.value = src[j].name
                       ELSE node.node = "Return"

\* a let statement has been parsed after a let statement that failed
C11_Witness ==
    /\ Done
    /\ Len(src) = 2
    /\ src[1].kind \in Malformed
    /\ src[2].kind = "let"
    /\ Len(parser.errors) > 0
    /\ \E k \in 1..Len(program) :
          program[k].node = "Let" /\ program[k].name.value = src[2].name

(***************************************************************************)
(* Calling the parser's methods one by one: Parser::new(Lexer::new(input)) *)
(* for a text of at most MaxCallStmts statements, then any of next_token,  *)
(* expect_peek, parse_expression and parse_statement, in any order.  call  *)
(* keeps the last call: its name, its argument, the parser before it and   *)
(* what it returned.                                                       *)
(***************************************************************************)
MaxCallStmts == 1

\* the calls stop when the error list has this many entries
MaxCallErrors == 2

\* tokens taken after the text's last byte, after which the calls stop
MaxCallPastEnd == 2

\* the kinds expect_peek is called with: the two of parse_let_statement,
\* and one more
PeekKinds == {"Ident", "Assign", "Semicolon"}

\* let x = 5 with no semicolon after it
LetNoSemiDesc ==
    [kind |-> "let_no_semi", name |-> <<120>>,
     expr |-> [form |-> "int", op |-> << >>, text |-> <<53>>, num |-> 5],
     semi |-> FALSE]

\* the statements about 5 and !5, named x where they have a name, and
\* let x = 5 without its semicolon
CallStmts ==
    {s \in StmtDescs : s.semi /\ s.expr.text = <<53>> /\ s.name \in {<< >>, <<120>>}}
        \cup {LetNoSemiDesc}

InitCalls ==
    /\ src \in UNION {[1..n -> CallStmts] : n \in 0..MaxCallStmts}
    /\ input = ProgramText(src)
    /\ parser = Parser_new(Lexer_new(input))
    /\ program = << >>
    /\ pc = "calls"
    /\ lexer = Lexer_new(input)
    /\ emitted = << >>
    /\ call = None

CanCall ==
    /\ pc = "calls"
    /\ Len(parser.errors) < MaxCallErrors
    /\ parser.pulled < Len(input) + MaxCallPastEnd

\* parser.next_token()
CallNextToken ==
    /\ CanCall
    /\ parser' = Parser_next_token(parser)
    /\ call' = Some([op |-> "next_token", arg |-> "", before |-> parser,
                     ret |-> None])
    /\ UNCHANGED <<input, src, lexer, emitted, program, pc>>

\* parser.expect_peek(kind)
CallExpectPeek ==
    /\ CanCall
    /\ \E kind \in PeekKinds :
          LET r == expect_peek(parser, kind)
          IN  /\ parser' = r.parser
              /\ call' = Some([op |-> "expect_peek", arg |-> kind,
                               before |-> parser, ret |-> Some(r.result)])
    /\ UNCHANGED <<input, src, lexer, emitted, program, pc>>

\* parser.parse_expression(LOWEST)
CallParseExpression ==
    /\ CanCall
    /\ LET r == parse_expression(parser, LOWEST)
       IN  /\ parser' = r.parser
           /\ call' = Some([op |-> "parse_expression", arg |-> "",
                            before |-> parser, ret |-> r.result])
    /\ UNCHANGED <<input, src, lexer, emitted, program, pc>>

\* parser.parse_statement()
CallParseStatement ==
    /\ CanCall
    /\ LET r == parse_statement(parser)
       IN  /\ parser' = r.parser
           /\ call' = Some([op |-> "parse_statement", arg |-> "",
                            before |-> parser, ret |-> r.result])
    /\ UNCHANGED <<input, src, lexer, emitted, program, pc>>

NextCalls ==
    \/ CallNextToken
    \/ CallExpectPeek
    \/ CallParseExpression
    \/ CallParseStatement

SpecCalls == InitCalls /\ [][NextCalls]_vars

\* the last call was op
Called(op) == call # None /\ call[1].op = op

\* C12: expect_peek(kind), when peek_token has the kind, makes cur_token the old
\* peek_token by taking exactly one token from the lexer, returns true and
\* leaves the error list alone; otherwise it returns false, leaves cur_token,
\* peek_token and the lexer where they were and appends exactly one error.
C12_ExpectPeek ==
    Called("expect_peek") =>
        LET before == call[1].before
        IN  IF before.peek_token.token_type = call[1].arg
            THEN /\ call[1].ret = Some(TRUE)
                 /\ parser.cur_token = before.peek_token
                 /\ parser.pulled = before.pulled + 1
                 /\ parser.peek_token = Lexer_next_token(before.lexer).token
                 /\ parser.errors = before.errors
            ELSE /\ call[1].ret = Some(FALSE)
                 /\ parser.cur_token = before.cur_token
                 /\ parser.peek_token = before.peek_token
                 /\ parser.lexer = before.lexer
                 /\ parser.pulled = before.pulled
                 /\ Len(parser.errors) = Len(before.errors) + 1
                 /\ SubSeq(parser.errors, 1, Len(before.errors)) = before.errors

\* an expect_peek has failed after one that succeeded on the same text
C12_Witness ==
    /\ Called("expect_peek")
    /\ call[1].ret = Some(FALSE)
    /\ call[1].before.pulled > 2
    /\ call[1].before.peek_token.token_type \in PeekKinds

\* C13: the error of a failed expect_peek(kind) names kind as the expected
\* kind and the kind of peek_token at the time of the call as the actual one.
C13_PeekErrorNamesPeek ==
    (Called("expect_peek") /\ call[1].ret = Some(FALSE)) =>
        LET e == parser.errors[Len(parser.errors)]
        IN  /\ e.expected = call[1].arg
            /\ e.got = call[1].before.peek_token.token_type

\* C14: parse_expression entered on a cur_token whose kind has no prefix
\* handler appends exactly one "no prefix parse function" error naming that
\* kind and yields no expression.
C14_NoPrefixError ==
    (/\ Called("parse_expression")
     /\ call[1].before.cur_token.token_type \notin DOMAIN call[1].before.prefix_parse_fns) =>
        /\ call[1].ret = None
        /\ parser.errors =
              Append(call[1].before.errors,
                     [msg |-> "no prefix parse function found",
                      token_type |-> call[1].before.cur_token.token_type])

\* the node an expression of the given form parses to
NodeOfForm(form) ==
    CASE form = "ident"  -> "Identifier"
      [] form = "int"    -> "IntegerLiteral"
      [] form = "prefix" -> "PrefixExpression"

\* C15: the LetStatement of every well-formed `let IDENT = EXPR;` has a value,
\* and the value is the expression EXPR parses to: an Identifier for a name,
\* an IntegerLiteral with the number for a number, a PrefixExpression for an
\* operator and its operand.
C15_LetValue ==
    (Done /\ AllOfKind("let")) =>
        /\ Len(program) = Len(src)
        /\ \A i \in 1..Len(program) :
              /\ program[i].node = "Let"
              /\ program[i].value # None
              /\ program[i].value[1].node = NodeOfForm(src[i].expr.form)
              /\ src[i].expr.form = "int" =>
                    NumberOf(program[i].value[1].value) = src[i].expr.num

\* C16: the ReturnStatement of every well-formed `return EXPR;` has as
\* return_value the expression EXPR parses to, an IntegerLiteral for a number
\* and a PrefixExpression for an operator and its operand, and not an
\* Identifier made from the token after `return`.
C16_ReturnValue ==
    (Done /\ AllOfKind("return")) =>
        /\ Len(program) = Len(src)
        /\ \A i \in 1..Len(program) :
              /\ program[i].node = "Return"
              /\ program[i].return_value # None
              /\ program[i].return_value[1].node = NodeOfForm(src[i].expr.form)

\* C17: for a text that is one statement `let <name> = <ident>;` in canonical
\* spacing, Program.string() of the parsed program is the text, byte for byte.
C17_RoundTrip ==
    (/\ Done
     /\ Len(src) = 1
     /\ src[1].kind = "let"
     /\ src[1].expr.form = "ident") =>
        /\ Len(program) = 1
        /\ Program_string(program) = input

\* C18: the error list is append-only: every step leaves the old error list
\* as a prefix of the new one.
C18_ErrorsAppendOnly ==
    [][/\ Len(parser.errors) <= Len(parser'.errors)
       /\ SubSeq(parser'.errors, 1, Len(parser.errors)) = parser.errors]_vars

\* two different errors have been appended, one after the other
C18_Witness ==
    /\ pc = "calls"
    /\ Len(parser.errors) = 2
    /\ parser.errors[1] # parser.errors[2]

\* a lexer on the input that has given no token yet
StartLexer ==
    [position |-> 0, read_position |-> 1, ch |-> ByteAt(0), input |-> input]

\* the lexer after its first k tokens
RECURSIVE LexerAfter(_)
LexerAfter(k) ==
    IF k = 0 THEN StartLexer ELSE Lexer_next_token(LexerAfter(k - 1)).lexer

\* the k-th token of the input's token stream, k >= 1
StreamToken(k) == Lexer_next_token(LexerAfter(k - 1)).token

\* C19: after Parser::new cur_token is the first token of the input and
\* peek_token the second; from then on cur_token and peek_token are the k-th
\* and (k+1)-th tokens of the token stream and the lexer has given exactly
\* k+1 tokens, and a call of next_token makes cur_token the previous
\* peek_token and takes exactly one token from the lexer.
C19_Lookahead ==
    pc = "calls" =>
        /\ call = None =>
              /\ parser.cur_token = StreamToken(1)
              /\ parser.peek_token = StreamToken(2)
        /\ parser.pulled >= 2
        /\ parser.cur_token = StreamToken(parser.pulled - 1)
        /\ parser.peek_token = StreamToken(parser.pulled)
        /\ parser.lexer = LexerAfter(parser.pulled)
        /\ Called("next_token") =>
              /\ parser.cur_token = call[1].before.peek_token
              /\ parser.pulled = call[1].before.pulled + 1
              /\ parser.lexer = Lexer_next_token(call[1].before.lexer).lexer

\* next_token has brought the parser to the third and the fourth token of a
\* text whose first four tokens are all different
C19_Witness ==
    /\ Called("next_token")
    /\ parser.pulled = 4
    /\ Cardinality({StreamToken(k).token_type : k \in 1..4}) = 4

(***************************************************************************)
(* Calling the lexer's two public methods, read_char and next_token, in    *)
(* any order after Lexer::new(input), for a text of at most MaxCallFrags   *)
(* fragments.                                                              *)
(***************************************************************************)
MaxCallFrags == 2

\* bytes read_char is called beyond the end of the text
MaxReadPastEnd == 2

InitLexerCalls ==
    /\ input \in {Concat(fs) : fs \in UNION {[1..n -> LexFrags] : n \in 0..MaxCallFrags}}
    /\ src = << >>
    /\ lexer = Lexer_new(input)
    /\ emitted = << >>
    /\ parser = Parser_new(Lexer_new(<< >>))
    /\ program = << >>
    /\ pc = "lexer_calls"
    /\ call = None

CanCallLexer ==
    /\ pc = "lexer_calls"
    /\ lexer.position < Len(input) + MaxReadPastEnd

\* lexer.read_char()
CallReadChar ==
    /\ CanCallLexer
    /\ lexer' = read_char(lexer)
    /\ call' = Some([op |-> "read_char", arg |-> "", before |-> lexer,
                     ret |-> None])
    /\ UNCHANGED <<input, src, emitted, parser, program, pc>>

\* lexer.next_token()
CallLexerNextToken ==
    /\ CanCallLexer
    /\ LET r == Lexer_next_token(lexer)
       IN  /\ lexer' = r.lexer
           /\ call' = Some([op |-> "next_token", arg |-> "", before |-> lexer,
                            ret |-> Some(r.token)])
    /\ UNCHANGED <<input, src, emitted, parser, program, pc>>

NextLexerCalls ==
    \/ CallReadChar
    \/ CallLexerNextToken

SpecLexerCalls == InitLexerCalls /\ [][NextLexerCalls]_vars

\* C20: after Lexer::new and after every read_char and next_token,
\* read_position = position + 1, and ch is input[position] when position is
\* inside the input and the sentinel 0 when it is at or past the end.
C20_LexerState ==
    pc = "lexer_calls" =>
        /\ lexer.input = input
        /\ lexer.read_position = lexer.position + 1
        /\ lexer.position < Len(input) => lexer.ch = input[lexer.position + 1]
        /\ lexer.position >= Len(input) => lexer.ch = 0

\* read_char has gone past the end of a text that next_token had been
\* reading before
C20_Witness ==
    /\ pc = "lexer_calls"
    /\ Called("read_char")
    /\ lexer.position > Len(input)
    /\ Len(input) >= 2
    /\ lexer.ch = 0

(***************************************************************************)
(* More properties of Lexer::next_token (checked under SpecLexer)          *)
(***************************************************************************)
\* the bytes next_token has an arm for besides the last one: whitespace,
\* letters and _, digits, = ; ( ) , + { } - * / < > ! and 0
Recognized(b) ==
    \/ b \in {9, 10, 12, 13, 32}
    \/ b \in 65..90 \/ b \in 97..122 \/ b = 95
    \/ b \in 48..57
    \/ b \in {61, 59, 40, 41, 44, 43, 123, 125, 45, 42, 47, 60, 62, 33}
    \/ b = 0

\* C21: on every byte that is not whitespace, a letter, an underscore, a
\* digit, an operator or punctuation byte or 0, next_token returns Illegal and
\* consumes exactly that byte, and the following call goes on at the next byte.
C21_IllegalByte ==
    \A k \in 1..Len(emitted) :
        LET e == emitted[k]
            q == TokenStart(e.from)
        IN  (q < Len(input) /\ ~Recognized(input[q + 1])) =>
              /\ e.token.token_type = "Illegal"
              /\ e.to = q + 1
              /\ k < Len(emitted) => emitted[k + 1].from = q + 1

\* an Illegal token for @ and one for 0xC3 with a token lexed after each
C21_Witness ==
    \E k \in 1..Len(emitted), j \in 1..Len(emitted) :
        /\ k + 1 < j /\ j < Len(emitted)
        /\ emitted[k].token.token_type = "Illegal" /\ input[emitted[k].to] = 64
        /\ emitted[j].token.token_type = "Illegal" /\ input[emitted[j].to] = 195
        /\ emitted[k + 1].token.token_type \notin {"Illegal", "Eof"}

\* the end of the run of digits that starts at i
RECURSIVE DigitRunEnd(_)
DigitRunEnd(i) ==
    IF i < Len(input) /\ input[i + 1] \in 48..57 THEN DigitRunEnd(i + 1) ELSE i

\* C22: where a token starts with a digit, next_token returns one Int token
\* whose literal is the whole run of digits from there, leading zeros kept,
\* and the next token starts at the first byte after the run.
C22_DigitRun ==
    \A k \in 1..Len(emitted) :
        LET e == emitted[k]
            q == TokenStart(e.from)
        IN  DigitRunEnd(q) > q =>
              /\ e.token = [token_type |-> "Int",
                            literal |-> SubSeq(input, q + 1, DigitRunEnd(q))]
              /\ e.to = DigitRunEnd(q)
              /\ k < Len(emitted) => emitted[k + 1].from = DigitRunEnd(q)

\* an Int with a leading zero and two digits, and a letter lexed right after
C22_Witness ==
    \E k \in 1..Len(emitted) - 1 :
        /\ emitted[k].token.token_type = "Int"
        /\ emitted[k].token.literal = <<48, 53>>
        /\ emitted[k + 1].token.token_type = "Ident"
        /\ TokenStart(emitted[k + 1].from) = emitted[k].to

(***************************************************************************)
(* Two lexers built from the same text, each stepped by next_token on its  *)
(* own.  lexer is the pair of the two Lexer values and emitted the pair of *)
(* the token sequences they have returned.                                 *)
(***************************************************************************)
InitTwoLexers ==
    /\ input \in {Concat(fs) : fs \in UNION {[1..n -> LexFrags] : n \in 0..MaxCallFrags}}
    /\ src = << >>
    /\ lexer = <<Lexer_new(input), Lexer_new(input)>>
    /\ emitted = <<<< >>, << >>>>
    /\ parser = Parser_new(Lexer_new(<< >>))
    /\ program = << >>
    /\ pc = "two_lexers"
    /\ call = None

\* the Eof tokens lexer i has returned
EofSeen(i) ==
    Cardinality({k \in 1..Len(emitted[i]) : emitted[i][k].token_type = "Eof"})

\* next_token on a cursor that the two lexers share
StepLexer_Shared(i) ==
    /\ pc = "two_lexers"
    /\ EofSeen(i) < MaxEofCalls
    /\ LET r == Lexer_next_token(lexer[i])
       IN  /\ lexer' = <<r.lexer, r.lexer>>
           /\ emitted' = [emitted EXCEPT ![i] = Append(@, r.token)]
    /\ UNCHANGED <<input, src, parser, program, pc, call>>

\* lexer i .next_token()
StepLexer(i) ==
    /\ pc = "two_lexers"
    /\ EofSeen(i) < MaxEofCalls
    /\ LET r == Lexer_next_token(lexer[i])
       IN  /\ lexer' = [lexer EXCEPT ![i] = r.lexer]
           /\ emitted' = [emitted EXCEPT ![i] = Append(@, r.token)]
    /\ UNCHANGED <<input, src, parser, program, pc, call>>

NextTwoLexers ==
    \/ StepLexer(1)
    \/ StepLexer(2)

SpecTwoLexers == InitTwoLexers /\ [][NextTwoLexers]_vars

BigStmts ==
    {i \in 1..Len(src) : src[i].kind = "expr" /\ src[i].expr.form = "bigint"}

CouldNotParse ==
    SelectSeq(parser.errors, LAMBDA e : e.msg = "could not parse as integer")

\* C24: an Int token whose digits are beyond 2^63 - 1 makes
\* parse_integer_literal append exactly one "could not parse <literal> as
\* integer" error and give no expression, and parse_program still comes to its
\* end and returns a Program: the "could not parse" errors are one for each
\* such number, with its literal, none for 2^63 - 1; a text that is one such
\* number gives that one error only and one statement without expression.
C24_IntOverflow ==
    Done =>
        /\ Len(CouldNotParse) = Cardinality(BigStmts)
        /\ \A k \in 1..Len(CouldNotParse) : CouldNotParse[k].literal = BigIntDesc.text
        /\ (Len(src) = 1 /\ BigStmts = {1}) =>
              /\ Len(parser.errors) = 1
              /\ Len(program) = 1
              /\ program[1].node = "Expression"
              /\ program[1].expression = None

\* parse_program has returned for a text with 2^63 on its first line and a
\* let statement on the second, which it has parsed
C24_Witness ==
    /\ Done
    /\ Len(src) = 2
    /\ BigStmts = {1}
    /\ src[2].kind = "let"
    /\ Len(CouldNotParse) = 1
    /\ program[Len(program)].node = "Let"

\* cur_token is Let and the token after it is no Ident, or the one after
\* that no Assign
LetMismatch(p) ==
    /\ p.cur_token.token_type = "Let"
    /\ \/ p.peek_token.token_type # "Ident"
       \/ Lexer_next_token(p.lexer).token.token_type # "Assign"

LetNodes == SelectSeq(program, LAMBDA s : s.node = "Let")

\* C25: a let statement aborted by a peek mismatch adds no node to
\* Program.statements: the step of parse_program that meets it leaves the
\* statement list as it was, and at the end the LetStatements are as many as
\* the let statements of the text that have their identifier and their =.
C25_AbortedLetNoNode ==
    /\ [][(pc = "parse_program" /\ LetMismatch(parser)) => program' = program]_vars
    /\ [](Done => Len(LetNodes) = Cardinality({i \in 1..Len(src) : src[i].kind = "let"}))

\* parse_program has returned for `let = E;` followed by `let x E;`, with an
\* error for each and no LetStatement
C25_Witness ==
    /\ Done
    /\ Len(src) = 2
    /\ src[1].kind = "let_no_ident"
    /\ src[2].kind = "let_no_assign"
    /\ Len(LetNodes) = 0
    /\ Len(parser.errors) >= 2

(***************************************************************************)
(* More properties of the parser's methods (checked under SpecCalls)       *)
(***************************************************************************)
\* the first index from a on whose token is a Semicolon or Eof
RECURSIVE FirstStop(_)
FirstStop(a) ==
    IF StreamToken(a).token_type \in {"Semicolon", "Eof"} THEN a ELSE FirstStop(a + 1)

\* C26: when both expect_peek checks of parse_let_statement succeed, it
\* returns the LetStatement with cur_token on the first Semicolon at or after
\* the Assign token, or on Eof if no Semicolon follows, having taken no token
\* beyond it: peek_token is the token right after, where parse_program goes on.
C26_LetStopsAtSemicolon ==
    (/\ Called("parse_statement")
     /\ call[1].before.cur_token.token_type = "Let"
     /\ ~LetMismatch(call[1].before)) =>
        LET assign == call[1].before.pulled + 1
            stop == FirstStop(assign)
        IN  /\ StreamToken(assign).token_type = "Assign"
            /\ call[1].ret # None
            /\ call[1].ret[1].node = "Let"
            /\ parser.pulled - 1 = stop
            /\ parser.cur_token = StreamToken(stop)
            /\ parser.peek_token = StreamToken(stop + 1)

\* a let statement without semicolon has been parsed up to Eof
C26_Witness ==
    /\ Called("parse_statement")
    /\ call[1].ret # None
    /\ call[1].ret[1].node = "Let"
    /\ parser.cur_token.token_type = "Eof"
    /\ call[1].before.peek_token.token_type = "Ident"

(***************************************************************************)
(* Properties of the statement dispatch (checked under Spec)               *)
(***************************************************************************)
\* C27: for every cur_token kind other than Let, Return and Eof,
\* parse_statement returns an ExpressionStatement, with or without
\* expression, and parse_program appends exactly that one statement.
C27_FallbackIsStatement ==
    [][(/\ pc = "parse_program"
        /\ parser.cur_token.token_type \notin {"Let", "Return", "Eof"}) =>
            /\ Len(program') = Len(program) + 1
            /\ SubSeq(program', 1, Len(program)) = program
            /\ program'[Len(program')].node = "Expression"
            /\ parse_statement(parser).result = Some(program'[Len(program')])]_vars

\* parse_program has returned with an ExpressionStatement that started at a
\* = and one that started at a !, both without expression
C27_Witness ==
    /\ Done
    /\ \E k \in 1..Len(program), j \in 1..Len(program) :
          /\ program[k].node = "Expression"
          /\ program[k].token.token_type = "Assign"
          /\ program[k].expression = None
          /\ program[j].node = "Expression"
          /\ program[j].token.token_type = "Bang"
          /\ program[j].expression = None

\* src with the semicolon of its i-th statement taken away if it has one and
\* put there if it has none
OtherSemi(i) == [src EXCEPT ![i].semi = ~@]

\* C28: the semicolon after an expression statement is optional: the text
\* with `E` and the text with `E;` in its place parse to the same statement
\* list and the same error list; parse_expression_statement advances by one
\* token, onto the semicolon, exactly when peek_token is a Semicolon, and
\* otherwise not at all.
C28_OptionalSemicolon ==
    /\ Done =>
          \A i \in 1..Len(src) :
              src[i].kind = "expr" =>
                  LET other == parse_program(
                                   Parser_new(Lexer_new(ProgramText(OtherSemi(i)))))
                  IN  /\ program = other.program
                      /\ parser.errors = other.parser.errors
    /\ (/\ pc = "parse_program"
        /\ parser.cur_token.token_type \notin {"Let", "Return", "Eof"}) =>
          LET r == parse_statement(parser)
          IN  IF peek_token_is(parser, "Semicolon")
              THEN /\ r.parser.pulled = parser.pulled + 1
                   /\ r.parser.cur_token = parser.peek_token
              ELSE /\ r.parser.pulled = parser.pulled
                   /\ r.parser.cur_token = parser.cur_token

\* parse_program has returned for an expression without semicolon on the
\* first line and one with its semicolon on the second
C28_Witness ==
    /\ Done
    /\ Len(src) = 2
    /\ src[1].kind = "expr" /\ ~src[1].semi
    /\ src[2].kind = "expr" /\ src[2].semi
    /\ Len(program) >= 2

\* an Identifier node holds an Ident token and an IntegerLiteral node an Int
\* token
ExprTokenOk(e) ==
    /\ e.node = "Identifier" => e.token.token_type = "Ident"
    /\ e.node = "IntegerLiteral" => e.token.token_type = "Int"

\* C29: every node holds the token that introduced it: a LetStatement the Let
\* token and its name the Ident token, a ReturnStatement the Return token, an
\* ExpressionStatement the token its statement started at, and every
\* Identifier node an Ident token and every IntegerLiteral node an Int token.
C29_NodeTokens ==
    Done =>
        /\ \A k \in 1..Len(program) :
              LET s == program[k]
              IN  CASE s.node = "Let" ->
                          /\ s.token.token_type = "Let"
                          /\ s.name.token.token_type = "Ident"
                          /\ s.value # None => ExprTokenOk(s.value[1])
                    [] s.node = "Return" ->
                          /\ s.token.token_type = "Return"
                          /\ s.return_value # None => ExprTokenOk(s.return_value[1])
                    [] s.node = "Expression" ->
                          /\ s.token.token_type \notin {"Let", "Return", "Eof"}
                          /\ s.expression # None => ExprTokenOk(s.expression[1])
        /\ (Len(src) >= 1 /\ src[1].kind = "expr") =>
              /\ Len(program) >= 1
              /\ program[1].token = StreamToken(1)

(***************************************************************************)
(* Printing a Program built by hand, as test_string does: program holds at *)
(* most MaxNodes statements, Program::string visits them in order and      *)
(* emitted keeps the text each Statement::string gave; at the end call     *)
(* holds the text Program::string returns.                                 *)
(***************************************************************************)
MaxNodes == 2

\* another_var, 5, (!5) as expressions
AstExprs ==
    LET ident == [node |-> "Identifier",
                  token |-> Token_new("Ident", <<97, 110, 111, 116, 104, 101, 114, 95, 118, 97, 114>>),
                  value |-> <<97, 110, 111, 116, 104, 101, 114, 95, 118, 97, 114>>]
        five  == [node |-> "IntegerLiteral",
                  token |-> Token_new("Int", <<53>>),
                  value |-> <<5>>]
    IN  {ident, five,
         [node |-> "PrefixExpression", token |-> Token_new("Bang", <<33>>),
          operator |-> <<33>>, right |-> five]}

\* an expression or none
AstOptions == {None} \cup {Some(e) : e \in AstExprs}

\* my_var, x as names
AstNames ==
    {[node |-> "Identifier", token |-> Token_new("Ident", n), value |-> n] :
        n \in {<<109, 121, 95, 118, 97, 114>>, <<120>>}}

AstStmts ==
    {[node |-> "Let", token |-> Token_new("Let", <<108, 101, 116>>),
      name |-> n, value |-> v] : n \in AstNames, v \in AstOptions}
    \cup {[node |-> "Return",
           token |-> Token_new("Return", <<114, 101, 116, 117, 114, 110>>),
           return_value |-> v] : v \in AstOptions}
    \cup {[node |-> "Expression", token |-> e.token, expression |-> Some(e)] :
           e \in AstExprs}

InitString ==
    /\ program \in UNION {[1..n -> AstStmts] : n \in 0..MaxNodes}
    /\ input = << >>
    /\ src = << >>
    /\ lexer = Lexer_new(<< >>)
    /\ parser = Parser_new(Lexer_new(<< >>))
    /\ emitted = << >>
    /\ pc = "string"
    /\ call = None

\* one iteration of the for loop of Program::string
ProgramStringLoop ==
    /\ pc = "string"
    /\ Len(emitted) < Len(program)
    /\ emitted' = Append(emitted, Statement_string(program[Len(emitted) + 1]))
    /\ UNCHANGED <<input, src, lexer, parser, program, pc, call>>

\* the loop's end: Program::string returns out
ProgramStringReturn ==
    /\ pc = "string"
    /\ Len(emitted) = Len(program)
    /\ pc' = "string_done"
    /\ call' = Some([op |-> "string", arg |-> "", before |-> parser,
                     ret |-> Some(Concat(emitted))])
    /\ UNCHANGED <<input, src, lexer, parser, program, emitted>>

NextString ==
    \/ ProgramStringLoop
    \/ ProgramStringReturn

SpecString == InitString /\ [][NextString]_vars

\* the text before the value of a LetStatement: <token_literal> <name>
LetHead(s) == s.token.literal \o <<32>> \o s.name.value

\* C30 as stated: LetStatement.string() is "<token_literal> <name> = <value>;"
\* when value is present, and when value is absent the = is followed directly
\* by the ; with nothing between them.
C30_LetStringBareAssign ==
    \A k \in 1..Len(emitted) :
        program[k].node = "Let" =>
            IF program[k].value # None
            THEN emitted[k] = LetHead(program[k]) \o <<32, 61, 32>>
                                  \o Expression_string(program[k].value[1]) \o <<59>>
            ELSE /\ Len(emitted[k]) = Len(LetHead(program[k])) + 3
                 /\ SubSeq(emitted[k], 1, Len(LetHead(program[k]))) = LetHead(program[k])
                 /\ SubSeq(emitted[k], Len(emitted[k]) - 1, Len(emitted[k])) = <<61, 59>>

\* C30 amended: LetStatement.string() is "<token_literal> <name> = <value>;"
\* when value is present, and when value is absent it is the same text with
\* the value left out, "<token_literal> <name> = ;": the space after the = is
\* still there, between the = and the ;.
C30_LetString ==
    \A k \in 1..Len(emitted) :
        program[k].node = "Let" =>
            emitted[k] = LetHead(program[k]) \o <<32, 61, 32>>
                             \o (IF program[k].value # None
                                 THEN Expression_string(program[k].value[1])
                                 ELSE << >>)
                             \o <<59>>

\* a LetStatement with a value and one without have been printed
C30_Witness ==
    /\ pc = "string_done"
    /\ Len(program) = 2
    /\ program[1].node = "Let" /\ program[1].value # None
    /\ program[2].node = "Let" /\ program[2].value = None
    /\ emitted[1] = <<108, 101, 116, 32, 109, 121, 95, 118, 97, 114, 32, 61, 32,
                      97, 110, 111, 116, 104, 101, 114, 95, 118, 97, 114, 59>>
    /\ emitted[2] = <<108, 101, 116, 32, 120, 32, 61, 32, 59>>

(***************************************************************************)
(* The token dump comes to its end (checked under SpecLexer)               *)
(***************************************************************************)
\* C31: on a fresh lexer for a text of n bytes, repeated next_token calls
\* return Eof after at most n + 1 calls: every call that returns another
\* token consumes at least one byte of the text and none beyond its end, so
\* at most n calls come before the first Eof.
C31_EofWithinLenPlusOne ==
    /\ \A k \in 1..Len(emitted) :
          emitted[k].token.token_type # "Eof" =>
              /\ emitted[k].to >= emitted[k].from + 1
              /\ emitted[k].to <= Len(input)
    /\ (\A k \in 1..Len(emitted) : emitted[k].token.token_type # "Eof") =>
          Len(emitted) <= Len(input)
    /\ Len(emitted) >= 1 => emitted[1].from = 0

\* a text of three bytes has given three tokens and then, at the fourth
\* call, Eof
C31_Witness ==
    /\ Len(input) = 3
    /\ Len(emitted) = 4
    /\ \A k \in 1..3 : emitted[k].token.token_type # "Eof"
    /\ emitted[4].token.token_type = "Eof"

\* C32: Lexer::new consumes no input: it leaves the lexer on byte 0 with that
\* byte as ch, and the first next_token call of a client returns the first
\* token of the input, which starts at the first byte that is no whitespace:
\* Eof if there is none, otherwise a token that ends after that byte.
C32_NewConsumesNothing ==
    /\ Len(emitted) = 0 => lexer = StartLexer
    /\ Len(emitted) >= 1 =>
          LET e == emitted[1]
              q == TokenStart(0)
          IN  /\ e.from = 0
              /\ e.token = Lexer_next_token(StartLexer).token
              /\ q >= Len(input) => e.token.token_type = "Eof"
              /\ (q < Len(input) /\ input[q + 1] # 0) =>
                    /\ e.token.token_type # "Eof"
                    /\ e.to > q
              /\ (q < Len(input) /\ input[q + 1] = 59) =>
                    e.token.token_type = "Semicolon" /\ e.to = q + 1

\* the first call on a text that begins with a space and then == has
\* returned Equal
C32_Witness ==
    /\ Len(emitted) >= 1
    /\ Len(input) = 3
    /\ input[1] = 32
    /\ emitted[1].token.token_type = "Equal"
    /\ emitted[1].to = 3

\* the token kinds of the identifier arm
LetterKinds == {"Ident"} \cup {kw[2] : kw \in KeywordTexts}

\* C33: the lexer does not abort, whatever the bytes and however many the
\* calls: where read_char and peek_char index the input, the index is inside
\* it; the slice input[start..position] of read_identifier and read_int has
\* start <= position <= len(input); and the slice holds ASCII letters and
\* underscores only, resp. ASCII digits only, so that its conversion from
\* UTF-8 does not fail.
C33_NoAbort ==
    /\ lexer.position >= 0
    /\ lexer.read_position < Len(input) => lexer.read_position + 1 \in DOMAIN input
    /\ (is_letter(lexer.ch) \/ is_ascii_digit(lexer.ch)) => lexer.position < Len(input)
    /\ \A k \in 1..Len(emitted) :
          LET e == emitted[k]
              start == TokenStart(e.from)
              slice == SubSeq(input, start + 1, e.to)
          IN  /\ e.token.token_type \in LetterKinds =>
                    /\ 0 <= start /\ start <= e.to /\ e.to <= Len(input)
                    /\ \A n \in 1..Len(slice) :
                          slice[n] \in 65..90 \/ slice[n] \in 97..122 \/ slice[n] = 95
                    /\ e.token.token_type = "Ident" => e.token.literal = slice
              /\ e.token.token_type = "Int" =>
                    /\ 0 <= start /\ start <= e.to /\ e.to <= Len(input)
                    /\ \A n \in 1..Len(slice) : slice[n] \in 48..57
                    /\ e.token.literal = slice

\* an identifier, the byte 0xC3 right after it and a number right after that
\* have been lexed as Ident, Illegal and Int
C33_Witness ==
    /\ Len(emitted) >= 3
    /\ emitted[1].token.token_type = "Ident"
    /\ emitted[2].token.token_type = "Illegal"
    /\ input[emitted[2].to] = 195
    /\ emitted[2].from = emitted[1].to
    /\ emitted[3].token.token_type = "Int"
    /\ emitted[3].from = emitted[2].to

\* C34: next_token returns Eof only when every byte of the input has been
\* consumed, that is with position >= len(input) when it looks at the byte
\* after the whitespace; no token of the input comes after an Eof.
C34_EofOnlyAtEnd ==
    \A k \in 1..Len(emitted) :
        emitted[k].token.token_type = "Eof" =>
            /\ TokenStart(emitted[k].from) >= Len(input)
            /\ \A j \in (k + 1)..Len(emitted) : emitted[j].token.token_type = "Eof"

=============================================================================
